---- MODULE Spec2Model ----
(***************************************************************************)
(* A model of crm/schema.py: the GraphQL mutations createCustomer,         *)
(* bulkCreateCustomers, createProduct and createOrder over a relational    *)
(* store of customers, products, orders and the order-product association. *)
(*                                                                         *)
(* Encoding.  An optional argument is a sequence of length at most one:    *)
(* <<>> is Python's None (argument absent) and <<v>> is the value v.  A    *)
(* string that the code inspects (the phone) is a sequence of one-         *)
(* character strings; a string the code only stores or compares (a name,   *)
(* an email, a message) is a TLA+ string.  A Decimal price is an integer   *)
(* number of cents.  A stored row's id is its position in the table, as    *)
(* an auto-increment key gives it.                                         *)
(***************************************************************************)
EXTENDS Integers, Sequences, FiniteSets, TLC

VARIABLES customers, products, orders, order_products, last, reqs

vars == <<customers, products, orders, order_products, last, reqs>>

-----------------------------------------------------------------------------
(* Bounds of the model. *)

MaxProducts == 2
MaxOrders == 2
MaxRows == 3

(* Constants of the program: the repetition counts of the phone pattern. *)

MinDigits == 10
MaxDigits == 15
AreaLen == 3
ExchangeLen == 3
LineLen == 4

-----------------------------------------------------------------------------
(* Values. *)

None == <<>>

Some(v) == <<v>>

Range(s) == {s[i] : i \in DOMAIN s}

\* the characters \d matches, as far as the inputs below use them
Digit == {"0", "1", "5", "9"}

Rep(c, n) == [i \in 1..n |-> c]

BoundedSeq(S, n) == UNION {[1..k -> S] : k \in 0..n}

TenDigits == Rep("5", MinDigits)

NineDigits == Rep("5", MinDigits - 1)

Dashed == <<"5", "5", "5", "-", "0", "1", "9", "-", "1", "5", "9", "0">>

(* Inputs of the customer specification. *)

Names == {"Ann"}

Emails == {"a@x.org", "b@x.org"}

Phones == {None, Some(<<>>), Some(TenDigits), Some(NineDigits),
           Some(<<"+">> \o Rep("1", MaxDigits)), Some(Rep("1", MaxDigits + 1)),
           Some(Dashed), Some(TenDigits \o <<"\n">>), Some(TenDigits \o <<"x">>),
           Some(TenDigits \o <<"\n", "\n">>), Some(<<" ">> \o TenDigits)}

RowPhones == {Some(NineDigits)}

CustomerInput == [name : Names, email : Emails, phone : RowPhones]

(* Inputs of the full specification. *)

CoreEmails == {"a@x.org"}

CorePhones == {None, Some(NineDigits)}

CoreCustomerInput == [name : Names, email : CoreEmails, phone : {None}]

RaceCustomerInput == [name : Names, email : Emails, phone : {None}]

ProductNames == {"Pen"}

ProductInputs == {[price |-> -500, stock |-> Some(-1)], [price |-> 0, stock |-> Some(5)],
                  [price |-> 1000, stock |-> Some(-1)], [price |-> 1000, stock |-> None],
                  [price |-> 1550, stock |-> Some(5)]}

CustomerIds == {1, 2}

ProductIdLists == {<<>>, <<1>>, <<2>>, <<1, 2>>, <<1, 1>>, <<1, 3>>}

OrderDates == {None, Some(7)}

Times == {1, 2}

(* The requests that may be in flight together. *)

ReqIds == {"r1", "r2"}

-----------------------------------------------------------------------------
RECURSIVE SumPrices(_)

RECURSIVE BulkRows(_, _, _, _, _)

RECURSIVE SortedSeq(_)

RECURSIVE PriceOfIds(_, _)

(* The phone pattern of createCustomer. *)

\* all of s[from+1 .. from+n] exist and are digits: \d{n} matched at offset from
DigitsAt(s, from, n) == /\ from + n <= Len(s)
                        /\ \A i \in (from + 1)..(from + n) : s[i] \in Digit

\* the literal character c at offset from
CharAt(s, from, c) == from + 1 <= Len(s) /\ s[from + 1] = c

\* Python's $ without re.MULTILINE: the end of the string, or just before a
\* newline that is the string's last character
DollarAt(s, pos) == \/ pos = Len(s)
                    \/ pos = Len(s) - 1 /\ s[Len(s)] = "\n"

\* \+?\d{10,15} followed by $
MatchInternational(s) == \E plus \in {0, 1} : \E k \in MinDigits..MaxDigits :
                             /\ plus = 1 => CharAt(s, 0, "+")
                             /\ DigitsAt(s, plus, k)
                             /\ DollarAt(s, plus + k)

\* \d{3}-\d{3}-\d{4} followed by $
MatchDashed(s) == /\ DigitsAt(s, 0, AreaLen)
                  /\ CharAt(s, AreaLen, "-")
                  /\ DigitsAt(s, AreaLen + 1, ExchangeLen)
                  /\ CharAt(s, AreaLen + 1 + ExchangeLen, "-")
                  /\ DigitsAt(s, AreaLen + ExchangeLen + 2, LineLen)
                  /\ DollarAt(s, AreaLen + ExchangeLen + LineLen + 2)

\* re.match(r"^(\+?\d{10,15}|(\d{3}-\d{3}-\d{4}))$", s)
ReMatchPhone(s) == MatchInternational(s) \/ MatchDashed(s)

\* `phone and not re.match(...)`: None and "" are falsy
PhoneRejected(phone) == /\ phone # None
                        /\ phone[1] # <<>>
                        /\ ~ReMatchPhone(phone[1])

-----------------------------------------------------------------------------
(* The store. *)

\* the existence query with the wrong column: filter(name=email)
EmailExistsByName(cs, email) == \E i \in DOMAIN cs : cs[i].name = email

\* Customer.objects.filter(email=email).exists()
EmailExists(cs, email) == \E i \in DOMAIN cs : cs[i].email = email

\* Customer.objects.create(name=.., email=.., phone=..)
InsertCustomer(cs, name, email, phone) ==
    Append(cs, [id |-> Len(cs) + 1, name |-> name, email |-> email, phone |-> phone])

\* Customer.objects.get(id=customer_id) finds a row
CustomerFound(cs, customer_id) == customer_id \in DOMAIN cs

\* Product.objects.filter(id__in=product_ids): the rows whose id is listed
FilterProducts(ps, product_ids) == {ps[i] : i \in {j \in DOMAIN ps : j \in Range(product_ids)}}

\* sum(product.price for product in products)
SumPrices(ps) == IF ps = {} THEN 0
                 ELSE LET p == CHOOSE q \in ps : TRUE
                      IN  p.price + SumPrices(ps \ {p})

\* the supplied date dropped: order_date=now()
OrderDateAlwaysNow(order_date, t) == t

\* order_date or now()
OrderDate(order_date, t) == IF order_date # None THEN order_date[1] ELSE t

\* order.products.set(products) on the association table
SetProducts(assoc, order_id, ps) ==
    {a \in assoc : a[1] # order_id} \cup {<<order_id, p.id>> : p \in ps}

\* the record of a call: its arguments, the message of the exception it raised
\* (None when it returned), the payload it returned, and what now() gave it
\* (None when the call did not read the clock)
Idle == [op |-> "none", args |-> <<>>, error |-> None, result |-> <<>>, now |-> None]

Failed(op, args, msg) ==
    [op |-> op, args |-> args, error |-> Some(msg), result |-> <<>>, now |-> None]

Returned(op, args, res, t) ==
    [op |-> op, args |-> args, error |-> None, result |-> res, now |-> t]

-----------------------------------------------------------------------------
(* The mutations, each run from its first line to its return or raise.     *)
(* last records the call: its arguments, the message of the exception it   *)
(* raised (None when it returned) and the payload it returned.             *)

\* CreateCustomer.mutate: the exception it raises, None when it raises none
CreateCustomerError(cs, email, phone) ==
    IF EmailExists(cs, email) THEN Some("Email already exists")
    ELSE IF PhoneRejected(phone) THEN Some("Invalid phone format")
    ELSE None

CreateCustomer(name, email, phone) ==
    LET args == [name |-> name, email |-> email, phone |-> phone]
        err == CreateCustomerError(customers, email, phone)
        cs == InsertCustomer(customers, name, email, phone)
    IN  /\ IF err # None
           THEN /\ last' = Failed("createCustomer", args, err[1])
                /\ UNCHANGED customers
           ELSE /\ customers' = cs
                /\ last' = Returned("createCustomer", args,
                                    [customer |-> cs[Len(cs)],
                                     message |-> "Customer created successfully"],
                                    None)
        /\ UNCHANGED <<products, orders, order_products, reqs>>

\* the row's index as enumerate gives it: f"Row {idx}: {str(e)}"
RowErrorZeroBased(idx, msg) == <<"Row ", idx, ": ", msg>>

\* f"Row {idx + 1}: {str(e)}"
RowError(idx, msg) == <<"Row ", idx + 1, ": ", msg>>

\* BulkCreateCustomers.mutate: the loop from row idx (0-based) to the end
BulkRows(cs, rows, idx, created, errors) ==
    IF idx >= Len(rows) THEN [customers |-> cs, created |-> created, errors |-> errors]
    ELSE LET data == rows[idx + 1]
         IN  IF EmailExists(cs, data.email)
             THEN BulkRows(cs, rows, idx + 1, created,
                           Append(errors, RowError(idx, "Email already exists")))
             ELSE LET cs2 == InsertCustomer(cs, data.name, data.email, data.phone)
                  IN  BulkRows(cs2, rows, idx + 1, Append(created, cs2[Len(cs2)]), errors)

BulkCreateCustomers(rows) ==
    LET out == BulkRows(customers, rows, 0, <<>>, <<>>)
    IN  /\ customers' = out.customers
        /\ last' = Returned("bulkCreateCustomers", [customers |-> rows],
                            [customers |-> out.created, errors |-> out.errors], None)
        /\ UNCHANGED <<products, orders, order_products, reqs>>

\* stock=0 in the signature of CreateProduct.mutate
StockOrDefault(stock) == IF stock = None THEN 0 ELSE stock[1]

\* the price test written price < 0
CreateProductErrorStrict(price, stock) ==
    IF price < 0 THEN Some("Price must be positive")
    ELSE IF stock < 0 THEN Some("Stock cannot be negative")
    ELSE None

\* CreateProduct.mutate: the exception it raises, None when it raises none
CreateProductError(price, stock) ==
    IF price <= 0 THEN Some("Price must be positive")
    ELSE IF stock < 0 THEN Some("Stock cannot be negative")
    ELSE None

\* the stock test moved after Product.objects.create
CreateProductInsertFirst(name, price, stock) ==
    LET args == [name |-> name, price |-> price, stock |-> stock]
        st == StockOrDefault(stock)
        row == [id |-> Len(products) + 1, name |-> name, price |-> price, stock |-> st]
    IN  /\ IF price <= 0
           THEN /\ last' = Failed("createProduct", args, "Price must be positive")
                /\ UNCHANGED products
           ELSE /\ Len(products) < MaxProducts
                /\ products' = Append(products, row)
                /\ last' = IF st < 0
                           THEN Failed("createProduct", args, "Stock cannot be negative")
                           ELSE Returned("createProduct", args, [product |-> row], None)
        /\ UNCHANGED <<customers, orders, order_products, reqs>>

CreateProduct(name, price, stock) ==
    LET args == [name |-> name, price |-> price, stock |-> stock]
        st == StockOrDefault(stock)
        err == CreateProductError(price, st)
        row == [id |-> Len(products) + 1, name |-> name, price |-> price, stock |-> st]
    IN  /\ IF err # None
           THEN /\ last' = Failed("createProduct", args, err[1])
                /\ UNCHANGED products
           ELSE /\ Len(products) < MaxProducts
                /\ products' = Append(products, row)
                /\ last' = Returned("createProduct", args, [product |-> row], None)
        /\ UNCHANGED <<customers, orders, order_products, reqs>>

\* the customer looked up before the empty-list test
CreateOrderErrorCustomerFirst(cs, ps, customer_id, product_ids) ==
    IF ~CustomerFound(cs, customer_id) THEN Some("Invalid customer ID")
    ELSE IF product_ids = <<>> THEN Some("At least one product is required")
    ELSE IF Cardinality(FilterProducts(ps, product_ids)) # Len(product_ids)
         THEN Some("One or more product IDs are invalid")
    ELSE None

\* CreateOrder.mutate: the exception it raises, None when it raises none
CreateOrderError(cs, ps, customer_id, product_ids) ==
    IF product_ids = <<>> THEN Some("At least one product is required")
    ELSE IF ~CustomerFound(cs, customer_id) THEN Some("Invalid customer ID")
    ELSE IF Cardinality(FilterProducts(ps, product_ids)) # Len(product_ids)
         THEN Some("One or more product IDs are invalid")
    ELSE None

CreateOrder(customer_id, product_ids, order_date, t) ==
    LET args == [customer_id |-> customer_id, product_ids |-> product_ids,
                 order_date |-> order_date]
        err == CreateOrderError(customers, products, customer_id, product_ids)
        found == FilterProducts(products, product_ids)
        order == [id |-> Len(orders) + 1,
                  customer |-> customer_id,
                  total_amount |-> SumPrices(found),
                  order_date |-> OrderDate(order_date, t)]
    IN  /\ IF err # None
           THEN /\ last' = Failed("createOrder", args, err[1])
                /\ UNCHANGED <<orders, order_products>>
           ELSE /\ Len(orders) < MaxOrders
                /\ orders' = Append(orders, order)
                /\ order_products' = SetProducts(order_products, order.id, found)
                /\ last' = Returned("createOrder", args, [order |-> order],
                                    IF order_date # None THEN None ELSE Some(t))
        /\ UNCHANGED <<customers, products, reqs>>

\* a request slot in which nothing runs
IdleReq == [op |-> "none", pc |-> "idle", args |-> <<>>, loc |-> <<>>, out |-> Idle]

Init ==
    /\ customers = <<>>
    /\ products = <<>>
    /\ orders = <<>>
    /\ order_products = {}
    /\ last = Idle
    /\ reqs = [r \in ReqIds |-> IdleReq]

Next ==
    \/ \E name \in Names, email \in CoreEmails, phone \in CorePhones :
           CreateCustomer(name, email, phone)
    \/ \E rows \in BoundedSeq(CoreCustomerInput, MaxRows) : BulkCreateCustomers(rows)
    \/ \E name \in ProductNames, in \in ProductInputs :
           CreateProduct(name, in.price, in.stock)
    \/ \E customer_id \in CustomerIds, product_ids \in ProductIdLists,
          order_date \in OrderDates, t \in Times :
           CreateOrder(customer_id, product_ids, order_date, t)

Spec == Init /\ [][Next]_vars

CustomerNext ==
    \/ \E name \in Names, email \in Emails, phone \in Phones :
           CreateCustomer(name, email, phone)
    \/ \E rows \in BoundedSeq(CustomerInput, MaxRows) : BulkCreateCustomers(rows)

CustomerSpec == Init /\ [][CustomerNext]_vars

SingleNext ==
    \E name \in Names, email \in Emails, phone \in Phones : CreateCustomer(name, email, phone)

SingleSpec == Init /\ [][SingleNext]_vars

-----------------------------------------------------------------------------
(* The same mutations run by requests that interleave: one action per      *)
(* query or write that the handler sends to the store.  reqs[r] holds      *)
(* request r's position (pc), its arguments, its local variables and,      *)
(* once it has ended, the record of the call.                              *)

\* the store's unique constraint on Customer.email refuses the insert
UniqueViolation(cs, email) == EmailExists(cs, email)

\* str(e) of the error the store raises for a refused insert
IntegrityMessage == "UNIQUE constraint failed: customer.email"

Free(r) == reqs[r].pc \in {"idle", "done"}

Ended(rec) == [op |-> rec.op, pc |-> "done", args |-> rec.args, loc |-> <<>>, out |-> rec]

At(op, pc, args, loc) == [op |-> op, pc |-> pc, args |-> args, loc |-> loc, out |-> Idle]

\* CreateCustomer.mutate up to the insert: the existence query and the phone test
CustomerCheck(r, name, email, phone) ==
    LET args == [name |-> name, email |-> email, phone |-> phone]
        err == CreateCustomerError(customers, email, phone)
    IN  /\ Free(r)
        /\ reqs' = [reqs EXCEPT ![r] =
                        IF err # None THEN Ended(Failed("createCustomer", args, err[1]))
                        ELSE At("createCustomer", "insert", args, <<>>)]
        /\ UNCHANGED <<customers, products, orders, order_products, last>>

\* CreateCustomer.mutate from Customer.objects.create to the return
CustomerInsert(r) ==
    LET q == reqs[r]
        cs == InsertCustomer(customers, q.args.name, q.args.email, q.args.phone)
    IN  /\ q.op = "createCustomer" /\ q.pc = "insert"
        /\ IF UniqueViolation(customers, q.args.email)
           THEN /\ reqs' = [reqs EXCEPT ![r] =
                               Ended(Failed("createCustomer", q.args, IntegrityMessage))]
                /\ UNCHANGED customers
           ELSE /\ customers' = cs
                /\ reqs' = [reqs EXCEPT ![r] =
                               Ended(Returned("createCustomer", q.args,
                                              [customer |-> cs[Len(cs)],
                                               message |-> "Customer created successfully"],
                                              None))]
        /\ UNCHANGED <<products, orders, order_products, last>>

\* BulkCreateCustomers.mutate: created = [], errors = [], before the loop
BulkBegin(r, rows) ==
    /\ Free(r)
    /\ reqs' = [reqs EXCEPT ![r] =
                    At("bulkCreateCustomers", "loop", [customers |-> rows],
                       [idx |-> 0, created |-> <<>>, errors |-> <<>>])]
    /\ UNCHANGED <<customers, products, orders, order_products, last>>

\* the except clause of the loop: the row's error is recorded, the loop goes on
RowFailed(q, msg) ==
    At(q.op, "loop", q.args,
       [idx |-> q.loc.idx + 1, created |-> q.loc.created,
        errors |-> Append(q.loc.errors, RowError(q.loc.idx, msg))])

\* the existence query of the row at idx
BulkRowCheck(r) ==
    LET q == reqs[r]
        data == q.args.customers[q.loc.idx + 1]
    IN  /\ q.op = "bulkCreateCustomers" /\ q.pc = "loop"
        /\ q.loc.idx < Len(q.args.customers)
        /\ reqs' = [reqs EXCEPT ![r] =
                        IF EmailExists(customers, data.email)
                        THEN RowFailed(q, "Email already exists")
                        ELSE At(q.op, "row_insert", q.args, q.loc)]
        /\ UNCHANGED <<customers, products, orders, order_products, last>>

\* the loop's handler narrowed to `except ValidationError`: the store's error
\* leaves the loop and ends the request
BulkRowInsertUncaught(r) ==
    LET q == reqs[r]
        data == q.args.customers[q.loc.idx + 1]
        cs == InsertCustomer(customers, data.name, data.email, data.phone)
    IN  /\ q.op = "bulkCreateCustomers" /\ q.pc = "row_insert"
        /\ IF UniqueViolation(customers, data.email)
           THEN /\ reqs' = [reqs EXCEPT ![r] = Ended(Failed(q.op, q.args, IntegrityMessage))]
                /\ UNCHANGED customers
           ELSE /\ customers' = cs
                /\ reqs' = [reqs EXCEPT ![r] =
                               At(q.op, "loop", q.args,
                                  [idx |-> q.loc.idx + 1,
                                   created |-> Append(q.loc.created, cs[Len(cs)]),
                                   errors |-> q.loc.errors])]
        /\ UNCHANGED <<products, orders, order_products, last>>

\* Customer.objects.create of the row at idx, and created.append
BulkRowInsert(r) ==
    LET q == reqs[r]
        data == q.args.customers[q.loc.idx + 1]
        cs == InsertCustomer(customers, data.name, data.email, data.phone)
    IN  /\ q.op = "bulkCreateCustomers" /\ q.pc = "row_insert"
        /\ IF UniqueViolation(customers, data.email)
           THEN /\ reqs' = [reqs EXCEPT ![r] = RowFailed(q, IntegrityMessage)]
                /\ UNCHANGED customers
           ELSE /\ customers' = cs
                /\ reqs' = [reqs EXCEPT ![r] =
                               At(q.op, "loop", q.args,
                                  [idx |-> q.loc.idx + 1,
                                   created |-> Append(q.loc.created, cs[Len(cs)]),
                                   errors |-> q.loc.errors])]
        /\ UNCHANGED <<products, orders, order_products, last>>

\* the loop is over: return BulkCreateCustomers(customers=created, errors=errors)
BulkReturn(r) ==
    LET q == reqs[r]
    IN  /\ q.op = "bulkCreateCustomers" /\ q.pc = "loop"
        /\ q.loc.idx >= Len(q.args.customers)
        /\ reqs' = [reqs EXCEPT ![r] =
                        Ended(Returned(q.op, q.args,
                                       [customers |-> q.loc.created, errors |-> q.loc.errors],
                                       None))]
        /\ UNCHANGED <<customers, products, orders, order_products, last>>

RaceNext ==
    \E r \in ReqIds :
        \/ \E name \in Names, email \in Emails, phone \in CorePhones :
               CustomerCheck(r, name, email, phone)
        \/ CustomerInsert(r)
        \/ \E rows \in BoundedSeq(RaceCustomerInput, MaxRows) : BulkBegin(r, rows)
        \/ BulkRowCheck(r)
        \/ BulkRowInsert(r)
        \/ BulkReturn(r)

RaceSpec == Init /\ [][RaceNext]_vars

\* CreateProduct.mutate: its tests are local and it sends the store one insert
ProductCreate(r, name, price, stock) ==
    LET args == [name |-> name, price |-> price, stock |-> stock]
        st == StockOrDefault(stock)
        err == CreateProductError(price, st)
        row == [id |-> Len(products) + 1, name |-> name, price |-> price, stock |-> st]
    IN  /\ Free(r)
        /\ IF err # None
           THEN /\ reqs' = [reqs EXCEPT ![r] = Ended(Failed("createProduct", args, err[1]))]
                /\ UNCHANGED products
           ELSE /\ Len(products) < MaxProducts
                /\ products' = Append(products, row)
                /\ reqs' = [reqs EXCEPT ![r] =
                               Ended(Returned("createProduct", args, [product |-> row], None))]
        /\ UNCHANGED <<customers, orders, order_products, last>>

\* the createOrder requests that have not yet inserted their order
OrdersToCome == Cardinality({r \in ReqIds : /\ reqs[r].op = "createOrder"
                                            /\ reqs[r].pc \in {"count", "sum", "create"}})

\* CreateOrder.mutate: the empty-list test and Customer.objects.get
OrderGetCustomer(r, customer_id, product_ids, order_date) ==
    LET args == [customer_id |-> customer_id, product_ids |-> product_ids,
                 order_date |-> order_date]
    IN  /\ Free(r)
        /\ Len(orders) + OrdersToCome < MaxOrders
        /\ reqs' = [reqs EXCEPT ![r] =
                        IF product_ids = <<>>
                        THEN Ended(Failed("createOrder", args,
                                          "At least one product is required"))
                        ELSE IF ~CustomerFound(customers, customer_id)
                        THEN Ended(Failed("createOrder", args, "Invalid customer ID"))
                        ELSE At("createOrder", "count", args, [customer |-> customer_id])]
        /\ UNCHANGED <<customers, products, orders, order_products, last>>

\* products.count() != len(product_ids)
OrderCount(r) ==
    LET q == reqs[r]
    IN  /\ q.op = "createOrder" /\ q.pc = "count"
        /\ reqs' = [reqs EXCEPT ![r] =
                        IF Cardinality(FilterProducts(products, q.args.product_ids))
                               # Len(q.args.product_ids)
                        THEN Ended(Failed("createOrder", q.args,
                                          "One or more product IDs are invalid"))
                        ELSE At(q.op, "sum", q.args, q.loc)]
        /\ UNCHANGED <<customers, products, orders, order_products, last>>

\* total_amount = sum(...): the queryset is evaluated and keeps its rows
OrderSum(r) ==
    LET q == reqs[r]
        found == FilterProducts(products, q.args.product_ids)
    IN  /\ q.op = "createOrder" /\ q.pc = "sum"
        /\ reqs' = [reqs EXCEPT ![r] =
                        At(q.op, "create", q.args,
                           [customer |-> q.loc.customer, products |-> found,
                            total_amount |-> SumPrices(found)])]
        /\ UNCHANGED <<customers, products, orders, order_products, last>>

\* Order.objects.create(customer=.., total_amount=.., order_date=order_date or now())
OrderCreate(r, t) ==
    LET q == reqs[r]
        order == [id |-> Len(orders) + 1,
                  customer |-> q.loc.customer,
                  total_amount |-> q.loc.total_amount,
                  order_date |-> OrderDate(q.args.order_date, t)]
    IN  /\ q.op = "createOrder" /\ q.pc = "create"
        /\ orders' = Append(orders, order)
        /\ reqs' = [reqs EXCEPT ![r] =
                        At(q.op, "set", q.args,
                           [order |-> order, products |-> q.loc.products,
                            now |-> IF q.args.order_date # None THEN None ELSE Some(t)])]
        /\ UNCHANGED <<customers, products, order_products, last>>

\* order.products.set(products) and the return
OrderSet(r) ==
    LET q == reqs[r]
    IN  /\ q.op = "createOrder" /\ q.pc = "set"
        /\ order_products' = SetProducts(order_products, q.loc.order.id, q.loc.products)
        /\ reqs' = [reqs EXCEPT ![r] =
                        Ended(Returned(q.op, q.args, [order |-> q.loc.order], q.loc.now))]
        /\ UNCHANGED <<customers, products, orders, last>>

OrderStepsNext ==
    \E r \in ReqIds :
        \/ \E name \in Names, email \in CoreEmails : CustomerCheck(r, name, email, None)
        \/ CustomerInsert(r)
        \/ \E name \in ProductNames, in \in ProductInputs :
               ProductCreate(r, name, in.price, in.stock)
        \/ \E customer_id \in CustomerIds, product_ids \in ProductIdLists,
              order_date \in OrderDates :
               OrderGetCustomer(r, customer_id, product_ids, order_date)
        \/ OrderCount(r)
        \/ OrderSum(r)
        \/ \E t \in Times : OrderCreate(r, t)
        \/ OrderSet(r)

OrderStepsSpec == Init /\ [][OrderStepsNext]_vars

-----------------------------------------------------------------------------
(* Vocabulary of the properties.  The properties read the tables and the   *)
(* record of the call, never the operators the handlers are built from.    *)

\* some persisted customer has this email
Persisted(cs, email) == \E c \in Range(cs) : c.email = email

\* the rows of table cs that hold this email
RowsWithEmail(cs, email) == {i \in DOMAIN cs : cs[i].email = email}

\* the members of a finite set of integers, in increasing order
SortedSeq(S) == IF S = {} THEN <<>>
                ELSE LET m == CHOOSE x \in S : \A y \in S : x <= y
                     IN  <<m>> \o SortedSeq(S \ {m})

\* the prices of the products with the listed ids, added up along the list
PriceOfIds(ps, ids) == IF ids = <<>> THEN 0
                       ELSE ps[Head(ids)].price + PriceOfIds(ps, Tail(ids))

\* table t2 is table t1 with rows added at the end
Extends(t1, t2) == Len(t1) <= Len(t2) /\ \A i \in DOMAIN t1 : t2[i] = t1[i]

NoDuplicateEmails ==
    \A i, j \in DOMAIN customers : customers[i].email = customers[j].email => i = j

\* a createCustomer step whose email is already persisted fails and adds no row
DuplicateCreateRefused ==
    (last'.op = "createCustomer" /\ Persisted(customers, last'.args.email))
        => (last'.error = Some("Email already exists") /\ customers' = customers)

\* a bulk step never adds a row for an email that is persisted, whether before
\* the call or by an earlier row of the batch, and removes nothing
DuplicateRowsRefused ==
    last'.op = "bulkCreateCustomers"
        => /\ Extends(customers, customers')
           /\ \A e \in Emails :
                 /\ Persisted(customers, e)
                        => RowsWithEmail(customers', e) = RowsWithEmail(customers, e)
                 /\ Cardinality(RowsWithEmail(customers', e)) <= 1

\* C1: run one request at a time, createCustomer and bulkCreateCustomers never
\* leave two persisted customers with the same email: a createCustomer for a
\* persisted email fails with "Email already exists" and adds no row, and a
\* bulk row whose email is persisted (also by an earlier row of its batch)
\* adds no row.
C1_EmailsStayUnique ==
    []NoDuplicateEmails /\ [][DuplicateCreateRefused /\ DuplicateRowsRefused]_vars

\* a batch whose second row repeats the email of its first: one row created,
\* the second refused
C1_Witness ==
    /\ last.op = "bulkCreateCustomers"
    /\ Len(last.args.customers) = 2
    /\ last.args.customers[1].email = last.args.customers[2].email
    /\ Len(last.result.customers) = 1
    /\ last.result.errors = <<<<"Row ", 2, ": ", "Email already exists">>>>
    /\ Cardinality(RowsWithEmail(customers, last.args.customers[1].email)) = 1

\* what a bulk call over rows must return and persist: every row, in order, is
\* either in created or named by one error string carrying its 1-based position
BulkPartition(rows, created, errors, before, after) ==
    LET n == Len(rows)
        failed == {errors[m][2] : m \in DOMAIN errors}
        kept == SortedSeq((1..n) \ failed)
        refused(k) == \/ Persisted(before, rows[k].email)
                      \/ \E j \in 1..(k - 1) : rows[j].email = rows[k].email
    IN  /\ Len(created) + Len(errors) = n
        /\ failed \subseteq 1..n
        /\ Cardinality(failed) = Len(errors)
        /\ \A m \in DOMAIN errors :
              /\ Len(errors[m]) = 4
              /\ errors[m] = <<"Row ", SortedSeq(failed)[m], ": ", errors[m][4]>>
        /\ \A k \in 1..n : k \in failed <=> refused(k)
        /\ Len(kept) = Len(created)
        /\ \A m \in DOMAIN created :
              /\ created[m].name = rows[kept[m]].name
              /\ created[m].email = rows[kept[m]].email
              /\ created[m].phone = rows[kept[m]].phone
        /\ after = before \o created

\* C3: bulkCreateCustomers handles every row once, in input order; a row gives
\* either one created customer or one error string "Row i: <message>" with i
\* its 1-based position, so len(created) + len(errors) = len(input); a failing
\* row does not stop later rows, and the customers of earlier rows stay
\* persisted when a later row fails.
C3_BulkPartitionsRows ==
    [][last'.op = "bulkCreateCustomers"
          => BulkPartition(last'.args.customers, last'.result.customers,
                           last'.result.errors, customers, customers')]_vars

\* three rows, the second refused, the first and the third created and persisted
C3_Witness ==
    /\ last.op = "bulkCreateCustomers"
    /\ Len(last.args.customers) = 3
    /\ Len(last.result.customers) = 2
    /\ last.result.errors = <<<<"Row ", 2, ": ", "Email already exists">>>>
    /\ last.result.customers[2].email = last.args.customers[3].email
    /\ last.result.customers[2] \in Range(customers)

\* the messages the single mutations raise
SingleMutationErrors ==
    {"Email already exists", "Invalid phone format", "Price must be positive",
     "Stock cannot be negative", "At least one product is required",
     "Invalid customer ID", "One or more product IDs are invalid"}

\* C2: when createCustomer, createProduct or createOrder ends in an error, the
\* persisted customers, products, orders and order-product associations are
\* exactly what they were before the call.
C2_FailedCallChangesNothing ==
    [][(last'.op \in {"createCustomer", "createProduct", "createOrder"}
           /\ last'.error # None)
          => /\ last'.error[1] \in SingleMutationErrors
             /\ customers' = customers
             /\ products' = products
             /\ orders' = orders
             /\ order_products' = order_products]_vars

\* a createProduct refused for its stock, after its price passed, with every
\* table populated
C2_Witness ==
    /\ last.op = "createProduct"
    /\ last.error = Some("Stock cannot be negative")
    /\ customers # <<>>
    /\ products # <<>>
    /\ orders # <<>>
    /\ order_products # {}

\* the products associated with an order
ProductsOf(assoc, order_id) == {a[2] : a \in {b \in assoc : b[1] = order_id}}

\* C4: a successful createOrder persists exactly one new order: its customer
\* is the customer with the given id, its products are exactly the products
\* named by product_ids, its total_amount is the sum of their prices at the
\* time of the call, its order_date is the supplied value or else the current
\* time; no customer or product is created or changed.
C4_OrderCreated ==
    [][(last'.op = "createOrder" /\ last'.error = None)
          => LET a == last'.args
                 o == orders'[Len(orders')]
             IN  /\ Len(orders') = Len(orders) + 1
                 /\ Extends(orders, orders')
                 /\ last'.result.order = o
                 /\ o.id \notin {p.id : p \in Range(orders)}
                 /\ \E c \in Range(customers) : c.id = a.customer_id /\ o.customer = c.id
                 /\ Range(a.product_ids) \subseteq {p.id : p \in Range(products)}
                 /\ ProductsOf(order_products', o.id) = Range(a.product_ids)
                 /\ \A p \in Range(orders) :
                        ProductsOf(order_products', p.id) = ProductsOf(order_products, p.id)
                 /\ o.total_amount = PriceOfIds(products, a.product_ids)
                 /\ o.order_date = IF a.order_date # None THEN a.order_date[1]
                                   ELSE last'.now[1]
                 /\ customers' = customers
                 /\ products' = products]_vars

\* an order for two products of different prices, with no date supplied, made
\* when another order was already persisted
C4_Witness ==
    /\ last.op = "createOrder"
    /\ last.error = None
    /\ last.args.product_ids = <<1, 2>>
    /\ last.args.order_date = None
    /\ last.result.order.total_amount = 2550
    /\ last.result.order.order_date = last.now[1]
    /\ Len(orders) = 2
    /\ ProductsOf(order_products, 2) = {1, 2}

\* what createOrder must answer for these arguments over these tables
ExpectedOrderError(cs, ps, customer_id, product_ids) ==
    LET known == {p.id : p \in Range(ps)}
        matching == {i \in known : i \in Range(product_ids)}
    IN  IF Len(product_ids) = 0 THEN Some("At least one product is required")
        ELSE IF customer_id \notin {c.id : c \in Range(cs)}
        THEN Some("Invalid customer ID")
        ELSE IF Cardinality(matching) # Len(product_ids)
        THEN Some("One or more product IDs are invalid")
        ELSE None

\* the list names an id that is no product, or names an id twice
BadIdList(ps, product_ids) ==
    \/ \E i \in DOMAIN product_ids : product_ids[i] \notin {p.id : p \in Range(ps)}
    \/ \E i, j \in DOMAIN product_ids : i # j /\ product_ids[i] = product_ids[j]

\* C5: createOrder's outcome is decided by three checks in order: an empty
\* product_ids fails with "At least one product is required" even when the
\* customer id is unknown; otherwise an unknown customer_id fails with
\* "Invalid customer ID"; otherwise "One or more product IDs are invalid"
\* exactly when the number of distinct existing products matching product_ids
\* differs from len(product_ids), which is when an id does not exist or is
\* repeated; otherwise the call succeeds.
C5_OrderChecksInOrder ==
    last.op = "createOrder"
        => LET a == last.args
               known == {p.id : p \in Range(products)}
           IN  /\ last.error = ExpectedOrderError(customers, products,
                                                  a.customer_id, a.product_ids)
               /\ (Cardinality({i \in known : i \in Range(a.product_ids)})
                       # Len(a.product_ids))
                     <=> BadIdList(products, a.product_ids)

\* an empty product list with an unknown customer id: the empty list is reported
C5_Witness ==
    /\ last.op = "createOrder"
    /\ last.args.product_ids = <<>>
    /\ last.args.customer_id \notin {c.id : c \in Range(customers)}
    /\ last.error = Some("At least one product is required")

\* every persisted product has a positive price and a stock that is not negative
ProductsWellFormed == \A p \in Range(products) : p.price > 0 /\ p.stock >= 0

\* what a createProduct step must do
ProductOutcome ==
    last'.op = "createProduct"
        => LET a == last'.args
               given == IF a.stock = None THEN 0 ELSE a.stock[1]
           IN  IF a.price <= 0
               THEN last'.error = Some("Price must be positive") /\ products' = products
               ELSE IF given < 0
               THEN last'.error = Some("Stock cannot be negative") /\ products' = products
               ELSE /\ last'.error = None
                    /\ Len(products') = Len(products) + 1
                    /\ Extends(products, products')
                    /\ last'.result.product = products'[Len(products')]
                    /\ products'[Len(products')].name = a.name
                    /\ products'[Len(products')].price = a.price
                    /\ products'[Len(products')].stock = given

\* C7: createProduct fails with "Price must be positive" when price <= 0,
\* otherwise with "Stock cannot be negative" when stock < 0, otherwise persists
\* exactly one product with the given name, price and stock, the stock being 0
\* when omitted; so every persisted product has price > 0 and stock >= 0.
C7_ProductValidated == []ProductsWellFormed /\ [][ProductOutcome]_vars

\* a product created with its stock omitted, stored with stock 0, beside one
\* created with a given stock
C7_Witness ==
    /\ last.op = "createProduct"
    /\ last.error = None
    /\ last.args.stock = None
    /\ last.result.product.stock = 0
    /\ last.result.product \in Range(products)
    /\ \E p \in Range(products) : p.stock = 5

\* every character of s from lo to hi is a digit
DigitsOnly(s, lo, hi) == \A i \in lo..hi : s[i] \in Digit

\* s as a whole is \+?\d{10,15} or \d{3}-\d{3}-\d{4}: nothing before, nothing after
FullMatchPhone(s) ==
    \/ Len(s) \in 10..15 /\ DigitsOnly(s, 1, Len(s))
    \/ Len(s) \in 11..16 /\ s[1] = "+" /\ DigitsOnly(s, 2, Len(s))
    \/ /\ Len(s) = 12
       /\ s[4] = "-" /\ s[8] = "-"
       /\ DigitsOnly(s, 1, 3) /\ DigitsOnly(s, 5, 7) /\ DigitsOnly(s, 9, 12)

\* the phone is absent, empty or a full match of the pattern
PhoneWellFormed(phone) == phone = None \/ phone[1] = <<>> \/ FullMatchPhone(phone[1])

\* C8: createCustomer with an unused email succeeds if and only if the phone is
\* absent, empty or a full match of the phone pattern (no extra leading or
\* trailing character of any kind); on success the persisted and returned
\* customer has the given name, email and phone and the message is "Customer
\* created successfully"; with a used email the duplicate-email error is
\* reported whatever the phone.
C8_PhoneFullMatch ==
    [][last'.op = "createCustomer"
          => LET a == last'.args
             IN  IF Persisted(customers, a.email)
                 THEN last'.error = Some("Email already exists")
                 ELSE /\ last'.error = None <=> PhoneWellFormed(a.phone)
                      /\ last'.error # None => last'.error = Some("Invalid phone format")
                      /\ last'.error = None
                            => /\ last'.result.message = "Customer created successfully"
                               /\ last'.result.customer.name = a.name
                               /\ last'.result.customer.email = a.email
                               /\ last'.result.customer.phone = a.phone
                               /\ customers' = Append(customers, last'.result.customer)]_vars

\* C10: bulkCreateCustomers makes no phone test, so a row with a fresh email is
\* stored with its phone as given; the property "every persisted customer's
\* phone is absent or matches the phone pattern" holds over runs of
\* createCustomer calls alone.  Stated here: that property, over such runs.
C10_SingleCreatePhonesWellFormed == \A c \in Range(customers) : PhoneWellFormed(c.phone)

\* C6: in every reachable state, the states between the store writes of a
\* running createOrder included, every persisted order references one existing
\* customer and a non-empty set of existing products.
C6_OrdersReferenceProducts ==
    \A o \in Range(orders) :
        /\ \E c \in Range(customers) : c.id = o.customer
        /\ ProductsOf(order_products, o.id) # {}
        /\ ProductsOf(order_products, o.id) \subseteq {p.id : p \in Range(products)}

\* the customers that the requests report as created
Reported(q) ==
    IF q.op = "createCustomer" /\ q.pc = "done" /\ q.out.error = None
    THEN {q.out.result.customer}
    ELSE IF q.op = "bulkCreateCustomers" /\ q.pc = "done" /\ q.out.error = None
    THEN Range(q.out.result.customers)
    ELSE IF q.op = "bulkCreateCustomers" /\ q.pc # "done" THEN Range(q.loc.created)
    ELSE {}

\* a customer reported as created is a persisted row
ReportedArePersisted == \A r \in ReqIds : Reported(reqs[r]) \subseteq Range(customers)

\* a createCustomer insert that meets a persisted email ends in an error, no row added
LosingCreate(r) ==
    (/\ reqs[r].op = "createCustomer" /\ reqs[r].pc = "insert"
     /\ reqs'[r] # reqs[r]
     /\ Persisted(customers, reqs[r].args.email))
        => /\ customers' = customers
           /\ reqs'[r].pc = "done"
           /\ reqs'[r].out.error # None

\* a bulk row insert that meets a persisted email adds one "Row i: ..." error
\* string for that row, no row to the table, and the loop goes on
LosingRow(r) ==
    (/\ reqs[r].op = "bulkCreateCustomers" /\ reqs[r].pc = "row_insert"
     /\ reqs'[r] # reqs[r]
     /\ Persisted(customers, reqs[r].args.customers[reqs[r].loc.idx + 1].email))
        => /\ customers' = customers
           /\ reqs'[r].op = "bulkCreateCustomers" /\ reqs'[r].pc = "loop"
           /\ reqs'[r].loc.created = reqs[r].loc.created
           /\ Len(reqs'[r].loc.errors) = Len(reqs[r].loc.errors) + 1
           /\ Extends(reqs[r].loc.errors, reqs'[r].loc.errors)
           /\ LET e == reqs'[r].loc.errors[Len(reqs'[r].loc.errors)]
              IN  /\ Len(e) = 4
                  /\ e = <<"Row ", reqs[r].loc.idx + 1, ": ", e[4]>>

\* C9: when requests creating customers for the same email interleave at the
\* existence check and the insert, and the store refuses an insert that would
\* break email uniqueness, at most one customer with that email is persisted
\* and the losing request ends with an error (a "Row i: ..." string for a bulk
\* row) instead of a second row; the existence check does not prevent the
\* second row, both requests can pass it.
C9_RaceLeavesOneRow ==
    /\ [](NoDuplicateEmails /\ ReportedArePersisted)
    /\ [][\A r \in ReqIds : LosingCreate(r) /\ LosingRow(r)]_vars

\* two createCustomer requests for one email both passed the existence check:
\* one inserted the row, the store refused the other
C9_Witness ==
    \E r, w \in ReqIds :
        /\ r # w
        /\ reqs[r].op = "createCustomer" /\ reqs[r].pc = "done"
        /\ reqs[w].op = "createCustomer" /\ reqs[w].pc = "done"
        /\ reqs[r].args.email = reqs[w].args.email
        /\ reqs[r].out.error = Some(IntegrityMessage)
        /\ reqs[w].out.error = None
        /\ Cardinality(RowsWithEmail(customers, reqs[r].args.email)) = 1

====
